---- MODULE Spec2Model ----
(***************************************************************************)
(* A state-machine model of the InfoGenius application controller          *)
(* (src/App.tsx), the image client it calls (src/unnamed/part_001) and     *)
(* the storage uploader (src/services/storageService.ts).                  *)
(*                                                                         *)
(* Text is modelled as a sequence of tokens (a token is a TLA+ string):    *)
(* whitespace is the token " ", digits are one token each, so that         *)
(* String.trim and String.includes are computed and not assumed.           *)
(***************************************************************************)
EXTENDS Integers, Sequences, FiniteSets, TLC

\* ------------------------------------------------------------------ bounds
\* generate/edit cycles that may be started in one run
MaxCycles == 2
\* clock ticks after which Date.now() stays at its last value
MaxTicks == 1
\* context sources the user may attach
MaxSources == 1
\* re-entrant triggers that are counted
MaxIgnored == 1
MaxSelectorCycles == 1
MaxUploadCycles == 1
MaxResearchCycles == 1
MaxSyncCycles == 2

\* --------------------------------------------------------------- constants
\* setTimeout(() => setIsSyncing(false), 2000): the delay in milliseconds
SyncDelay == 2000
\* the clock advances in steps of this many milliseconds
TickMs == SyncDelay
\* .slice(0, 5): the number of facts kept
FactsLimit == 5

Null == "<null>"
STORAGE_KEY == "infogenius_history_v1"

ValidationError == "Please enter a topic or provide context (File/URL) to visualize."
AccessDeniedGenerate == "Access denied. The selected API key does not have access to the required models. Please select a project with billing enabled."
ServiceUnavailable == "The image generation service is temporarily unavailable. Please try again."
AccessDeniedEdit == "Access denied. Please select a valid API key with billing enabled."
ModificationFailed == "Modification failed. Try a different command."

\* ------------------------------------------------------------ text helpers
Min(a, b) == IF a < b THEN a ELSE b

\* the characters \\s matches and trim removes
WhiteSpace == { " ", "\n" }

RECURSIVE TrimStart(_)
TrimStart(s) == IF s # <<>> /\ Head(s) \in WhiteSpace THEN TrimStart(Tail(s)) ELSE s

RECURSIVE TrimEnd(_)
TrimEnd(s) ==
  IF s # <<>> /\ s[Len(s)] \in WhiteSpace THEN TrimEnd(SubSeq(s, 1, Len(s) - 1)) ELSE s

\* String.prototype.trim
Trim(s) == TrimEnd(TrimStart(s))

\* String.prototype.includes: sub occurs in s as a contiguous run
Includes(s, sub) ==
  \E i \in 0..(Len(s) - Len(sub)) : SubSeq(s, i + 1, i + Len(sub)) = sub

\* Array.prototype.join over texts
RECURSIVE Join(_, _)
Join(texts, sep) ==
  IF texts = <<>> THEN <<>>
  ELSE IF Len(texts) = 1 THEN texts[1]
  ELSE texts[1] \o sep \o Join(Tail(texts), sep)

\* ------------------------------------------------------------------ inputs
\* what the user may type into the topic field
TopicInputs == { <<>>, <<" ">>, <<" ", "Photosynthesis", " ">> }

\* links the user may add as context
UrlInputs == { <<"https://example.com">> }

\* edit instructions the Infographic component may pass to onEdit
EditPrompts == { <<"make it blue">> }

ComplexityLevels == { "Expert", "Elementary" }
VisualStyles == { "Default", "Sketch" }
Languages == { "English", "Spanish" }
AspectRatios == { "16:9", "1:1" }
Resolutions == { "1K", "2K" }

\* results researchTopicForPrompt may resolve to
ResearchResults ==
  { [ imagePrompt |-> <<"Create an infographic about photosynthesis">>,
      facts |-> <<"Fact A", "Fact B">>,
      searchResults |-> <<>> ],
    [ imagePrompt |-> <<"Create a detailed infographic about ", "Photosynthesis">>,
      facts |-> <<>>,
      searchResults |-> << [ title |-> "Wiki", url |-> "https://w.org" ] >> ] }

\* an optional value of a response: << >> when it is missing, << v >> otherwise
\* a grounding chunk: a web source, or a chunk of another kind
WebChunk(uri, title) == [ web |-> << [ uri |-> uri, title |-> title ] >> ]
OtherChunk == [ web |-> << >> ]

\* a bullet line of the text model's answer
Bullet(word) == << "-", " ", word, "\n" >>

\* responses of the text model: the text and candidates[0].groundingMetadata.groundingChunks
ResearchResponses ==
  { [ text |-> << << "FACTS:", "\n" >> \o Bullet("a") \o Bullet("b")
                   \o << "\n", "IMAGE_PROMPT:", "\n", "draw", " ", "it", "\n" >> >>,
      chunks |-> << << WebChunk("https://w.org", "Wiki"), WebChunk("https://n.gov", "NASA"),
                       WebChunk("https://w.org", "Wikipedia") >> >> ],
    [ text |-> << << "Sure.", "\n", "FACTS:", "\n" >> \o Bullet("a") \o Bullet("b")
                   \o Bullet("c") \o Bullet("d") \o Bullet("e") \o Bullet("f") \o Bullet("g")
                   \o << "IMAGE_PROMPT:", " ", "draw" >> >>,
      chunks |-> << >> ],
    [ text |-> << << "facts:", "\n", " ", " " >> \o Bullet("a") \o << " ", " " >> \o Bullet("b")
                   \o << "image_prompt:", " ", "draw" >> >>,
      chunks |-> << << WebChunk("https://w.org", Null), OtherChunk,
                       WebChunk("https://n.gov", "NASA") >> >> ],
    [ text |-> << << "FACTS:", "\n" >> \o Bullet("a") >>,
      chunks |-> << << >> >> ],
    [ text |-> << << "FACTS:", "\n" >> \o Bullet("a") \o << "IMAGE_PROMPT:", " ", "\n" >> >>,
      chunks |-> << >> ],
    [ text |-> << >>,
      chunks |-> << << WebChunk("https://w.org", "Wiki"), WebChunk("https://w.org", "Wiki") >> >> ] }

\* a response part: text, or inline data (inlineData = <<>> when the part has none)
TextPart(t) == [ text |-> t, inlineData |-> <<>> ]
InlinePart(d) == [ text |-> "", inlineData |-> << [ data |-> d ] >> ]

\* candidates[0].content.parts of an image-model response
ImageResponses ==
  { << TextPart("Here is your infographic"), InlinePart("AAAA"), InlinePart("CCCC") >>,
    << InlinePart("BBBB") >>,
    << TextPart("I cannot draw that"), InlinePart("") >>,
    << >> }

\* errors a network call may reject with (message = <<>>: no message)
Err(m) == [ message |-> m ]
Err401 == Err(<<"got status: ", "4", "0", "1", " Unauthorized">>)
Err403 == Err(<<"got status: ", "4", "0", "3", " Forbidden">>)
Err404 == Err(<<"got status: ", "4", "0", "4", " Not Found">>)
ErrNotFound == Err(<<"{error: ", "Requested entity was not found", ".}">>)
Err500 == Err(<<"got status: ", "5", "0", "0">>)
ErrNoMessage == Err(<<>>)
NetworkErrors == { Err401, Err403, Err404, ErrNotFound, Err500, ErrNoMessage }

\* ------------------------------------------------------------------- state
VARIABLES
  topic,                 \* useState('')
  contextSources,        \* useState<ContextSource[]>([])
  activeImageId,         \* useState<string | null>(null)
  complexityLevel, visualStyle, language, aspectRatio, resolution,
  isLoading, isSyncing, loadingStep, loadingFacts, error,
  imageHistory,          \* useState<GeneratedImage[]>([]), newest first
  currentSearchResults,
  hasApiKey,
  localStorage,          \* the browser's local storage, by key
  env,                   \* process.env as injected at build time
  storageStatus,         \* useState(getGCSConfig())
  settled,               \* the uploadToGCS call that settled last: what it resolved to, the POSTs it issued
  cycles,                \* handleGenerate / handleEdit invocations awaiting a call
  uploads,               \* uploadToGCS invocations awaiting decode or the POST
  timers,                \* pending setTimeout callbacks: ticks left for each
  now,                   \* the clock read by Date.now()
  console,               \* the last error passed to console.error by a handler
  sent,                  \* requests issued so far, per endpoint
  produced,              \* data of the images successful cycles produced since the last clear, oldest first
  ignored                \* re-entrant triggers dropped so far

controller ==
  << topic, contextSources, activeImageId, complexityLevel, visualStyle, language,
     aspectRatio, resolution, isLoading, isSyncing, loadingStep, loadingFacts, error,
     imageHistory, currentSearchResults, hasApiKey >>

vars ==
  << topic, contextSources, activeImageId, complexityLevel, visualStyle, language,
     aspectRatio, resolution, isLoading, isSyncing, loadingStep, loadingFacts, error,
     imageHistory, currentSearchResults, hasApiKey, localStorage, env, storageStatus,
     settled, cycles, uploads, timers, now, console, sent, produced, ignored >>

params == << complexityLevel, visualStyle, language, aspectRatio, resolution >>

\* ------------------------------------------------------ storageService.ts
\* a JavaScript value used as a condition: null, undefined and '' are falsy
Truthy(v) == v # Null /\ v # ""

\* a || b
Or(a, b) == IF Truthy(a) THEN a ELSE b

\* variant: configured only when one source supplies both the bucket and the token
getGCSConfigSameSource ==
  LET envBucket == env.GCS_BUCKET_NAME
      envToken == Or(env.GCS_ACCESS_TOKEN, env.GCS_CREDENTIALS)
      localBucket == localStorage.gcs_bucket_override
      localToken == localStorage.gcs_token_override
  IN [ bucket |-> Or(Or(localBucket, envBucket), ""),
       token |-> Or(Or(localToken, envToken), ""),
       isConfigured |-> \/ Truthy(localBucket) /\ Truthy(localToken)
                        \/ Truthy(envBucket) /\ Truthy(envToken),
       source |-> IF Truthy(Or(localBucket, localToken)) THEN "manual"
                  ELSE IF Truthy(Or(envBucket, envToken)) THEN "env" ELSE "none" ]

\* variant: the source is decided by the bucket alone
getGCSConfigSourceByBucket ==
  LET envBucket == env.GCS_BUCKET_NAME
      envToken == Or(env.GCS_ACCESS_TOKEN, env.GCS_CREDENTIALS)
      localBucket == localStorage.gcs_bucket_override
      localToken == localStorage.gcs_token_override
  IN [ bucket |-> Or(Or(localBucket, envBucket), ""),
       token |-> Or(Or(localToken, envToken), ""),
       isConfigured |-> Truthy(Or(localBucket, envBucket)) /\ Truthy(Or(localToken, envToken)),
       source |-> IF Truthy(localBucket) THEN "manual"
                  ELSE IF Truthy(envBucket) THEN "env" ELSE "none" ]

\* variant: the environment is preferred over the overrides
getGCSConfigEnvFirst ==
  LET envBucket == env.GCS_BUCKET_NAME
      envToken == Or(env.GCS_ACCESS_TOKEN, env.GCS_CREDENTIALS)
      localBucket == localStorage.gcs_bucket_override
      localToken == localStorage.gcs_token_override
  IN [ bucket |-> Or(Or(envBucket, localBucket), ""),
       token |-> Or(Or(envToken, localToken), ""),
       isConfigured |-> Truthy(Or(localBucket, envBucket)) /\ Truthy(Or(localToken, envToken)),
       source |-> IF Truthy(Or(localBucket, localToken)) THEN "manual"
                  ELSE IF Truthy(Or(envBucket, envToken)) THEN "env" ELSE "none" ]

\* process.env and the overrides in local storage, resolved into one configuration
getGCSConfig ==
  LET envBucket == env.GCS_BUCKET_NAME
      envToken == Or(env.GCS_ACCESS_TOKEN, env.GCS_CREDENTIALS)
      localBucket == localStorage.gcs_bucket_override
      localToken == localStorage.gcs_token_override
  IN [ bucket |-> Or(Or(localBucket, envBucket), ""),
       token |-> Or(Or(localToken, envToken), ""),
       isConfigured |-> Truthy(Or(localBucket, envBucket)) /\ Truthy(Or(localToken, envToken)),
       source |-> IF Truthy(Or(localBucket, localToken)) THEN "manual"
                  ELSE IF Truthy(Or(envBucket, envToken)) THEN "env" ELSE "none" ]

\* JSON.stringify(imageHistory) as written by the save effect; a stored value is
\* <<>> when the key is absent and <<text>> when it is present
Stringify(history) == [ json |-> history ]
Stored(text) == << text >>

\* JSON.parse(saved) of a text the save effect wrote
Parse(text) == text.json

\* ------------------------------------------------------------ image client
DataUriPrefix == "data:image/png;base64,"

\* variant: the image is taken to be the first part
FirstPartImage(parts, failure) ==
  IF parts # <<>> /\ Head(parts).inlineData # <<>> /\ Head(parts).inlineData[1].data # ""
  THEN [ ok |-> TRUE, data |-> <<DataUriPrefix, Head(parts).inlineData[1].data>>,
         err |-> Err(<<>>) ]
  ELSE [ ok |-> FALSE, data |-> <<>>, err |-> Err(<<failure>>) ]

\* the first part with inlineData and non-empty inlineData.data, as a PNG data
\* URI; ok = FALSE when the loop falls through to the throw
RECURSIVE FirstInlineImage(_, _)
FirstInlineImage(parts, failure) ==
  IF parts = <<>> THEN [ ok |-> FALSE, data |-> <<>>, err |-> Err(<<failure>>) ]
  ELSE IF Head(parts).inlineData # <<>> /\ Head(parts).inlineData[1].data # ""
       THEN [ ok |-> TRUE, data |-> <<DataUriPrefix, Head(parts).inlineData[1].data>>,
              err |-> Err(<<>>) ]
       ELSE FirstInlineImage(Tail(parts), failure)

generateInfographicImage(parts) == FirstInlineImage(parts, "Failed to generate image")
editInfographicImage(parts) == FirstInlineImage(parts, "Failed to edit image")

\* currentImageBase64.replace(/^data:image\/(png|jpeg|jpg);base64,/, '')
cleanBase64(uri) ==
  IF uri # <<>> /\ Head(uri) \in { "data:image/png;base64,", "data:image/jpeg;base64,",
                                    "data:image/jpg;base64," }
  THEN Tail(uri) ELSE uri

\* --------------------------------------------------------- research client
getLevelInstruction(level) ==
  CASE level = "Elementary" ->
         "Target Audience: Elementary School (Ages 6-10). Style: Bright, simple, fun. Use large clear icons and very minimal text labels."
    [] level = "High School" ->
         "Target Audience: High School. Style: Standard Textbook. Clean lines, clear labels, accurate maps or diagrams. Avoid cartoony elements."
    [] level = "College" ->
         "Target Audience: University. Style: Academic Journal. High detail, data-rich, precise cross-sections or complex schematics."
    [] level = "Expert" ->
         "Target Audience: Industry Expert. Style: Technical Blueprint/Schematic. Extremely dense detail, monochrome or technical coloring, precise annotations."
    [] OTHER -> "Target Audience: General Public. Style: Clear and engaging."

getStyleInstruction(style) ==
  CASE style = "Minimalist" ->
         "Aesthetic: Bauhaus Minimalist. Flat vector art, limited color palette (2-3 colors), reliance on negative space and simple geometric shapes."
    [] style = "Realistic" ->
         "Aesthetic: Photorealistic Composite. Cinematic lighting, 8k resolution, highly detailed textures. Looks like a photograph."
    [] style = "Cartoon" ->
         "Aesthetic: Educational Comic. Vibrant colors, thick outlines, expressive cel-shaded style."
    [] style = "Vintage" ->
         "Aesthetic: 19th Century Scientific Lithograph. Engraving style, sepia tones, textured paper background, fine hatch lines."
    [] style = "Futuristic" ->
         "Aesthetic: Cyberpunk HUD. Glowing neon blue/cyan lines on dark background, holographic data visualization, 3D wireframes."
    [] style = "3D Render" ->
         "Aesthetic: 3D Isometric Render. Claymorphism or high-gloss plastic texture, studio lighting, soft shadows, looks like a physical model."
    [] style = "Sketch" ->
         "Aesthetic: Da Vinci Notebook. Ink on parchment sketch, handwritten annotations style, rough but accurate lines."
    [] OTHER ->
         "Aesthetic: High-quality digital scientific illustration. Clean, modern, highly detailed."

\* the markers as the case-insensitive patterns find them
FactsMarkers == { "FACTS:", "facts:" }
PromptMarkers == { "IMAGE_PROMPT:", "image_prompt:" }

\* position of the first token of text from `from` on that is one of tokens,
\* Len(text) + 1 when there is none
RECURSIVE IndexOf(_, _, _)
IndexOf(text, tokens, from) ==
  IF from > Len(text) THEN Len(text) + 1
  ELSE IF text[from] \in tokens THEN from
  ELSE IndexOf(text, tokens, from + 1)

\* response.text || ""
ResponseText(response) == IF response.text = << >> THEN <<>> ELSE response.text[1]

\* text.match(/FACTS:\s*([\s\S]*?)(?=IMAGE_PROMPT:|$)/i): the capture, trimmed,
\* or "" without a match
factsRaw(text) ==
  LET f == IndexOf(text, FactsMarkers, 1)
  IN IF f > Len(text) THEN <<>>
     ELSE LET rest == TrimStart(SubSeq(text, f + 1, Len(text)))
              p == IndexOf(rest, PromptMarkers, 1)
          IN Trim(SubSeq(rest, 1, p - 1))

\* String.prototype.split('\n')
RECURSIVE Split(_)
Split(s) ==
  LET k == IndexOf(s, { "\n" }, 1)
  IN IF k > Len(s) THEN << s >>
     ELSE << SubSeq(s, 1, k - 1) >> \o Split(SubSeq(s, k + 1, Len(s)))

\* f.replace(/^-\s*/, '')
StripDash(f) == IF f # <<>> /\ Head(f) = "-" THEN TrimStart(Tail(f)) ELSE f

\* factsRaw.split('\n').map(...).filter(f => f.length > 0).slice(0, 5)
ParsedFacts(text) ==
  LET lines == Split(factsRaw(text))
      mapped == [ k \in 1..Len(lines) |-> Trim(StripDash(lines[k])) ]
      kept == SelectSeq(mapped, LAMBDA f : Len(f) > 0)
  IN SubSeq(kept, 1, Min(FactsLimit, Len(kept)))

\* variant: the fallback prompt leaves the topic out
ParsedPromptWithoutTopic(text, t, level, style) ==
  LET p == IndexOf(text, PromptMarkers, 1)
  IN IF p > Len(text)
     THEN << "Create a detailed infographic. ", getLevelInstruction(level), " ",
             getStyleInstruction(style) >>
     ELSE Trim(TrimStart(SubSeq(text, p + 1, Len(text))))

\* text.match(/IMAGE_PROMPT:\s*([\s\S]*?)$/i): the capture, trimmed, or the
\* prompt made of the topic and the two instructions
ParsedPrompt(text, t, level, style) ==
  LET p == IndexOf(text, PromptMarkers, 1)
  IN IF p > Len(text)
     THEN << "Create a detailed infographic about " >> \o t
            \o << ". ", getLevelInstruction(level), " ", getStyleInstruction(style) >>
     ELSE Trim(TrimStart(SubSeq(text, p + 1, Len(text))))

\* the grounding chunks that carry both a web uri and a web title
searchResults(response) ==
  IF response.chunks = << >> THEN <<>>
  ELSE LET web == SelectSeq(response.chunks[1],
                            LAMBDA chunk : /\ chunk.web # << >>
                                           /\ chunk.web[1].uri \notin { Null, "" }
                                           /\ chunk.web[1].title \notin { Null, "" })
       IN [ k \in 1..Len(web) |-> [ title |-> web[k].web[1].title, url |-> web[k].web[1].uri ] ]

\* Map.prototype.set: a key already present keeps its position and takes the
\* new value, a new key goes last
MapSet(entries, item) ==
  IF \E k \in 1..Len(entries) : entries[k].url = item.url
  THEN [ k \in 1..Len(entries) |-> IF entries[k].url = item.url THEN item ELSE entries[k] ]
  ELSE Append(entries, item)

\* Array.from(new Map(items.map(item => [item.url, item])).values())
RECURSIVE uniqueResults(_)
uniqueResults(items) ==
  IF items = <<>> THEN <<>>
  ELSE MapSet(uniqueResults(SubSeq(items, 1, Len(items) - 1)), items[Len(items)])

\* what researchTopicForPrompt makes of the text model's response
researchTopicForPrompt(t, level, style, response) ==
  [ imagePrompt |-> ParsedPrompt(ResponseText(response), t, level, style),
    facts |-> ParsedFacts(ResponseText(response)),
    searchResults |-> uniqueResults(searchResults(response)) ]

\* -------------------------------------------------------------- controller
\* ids Math.random() may give a context source
SourceIds == { "k3j9x", "p0q2m" }

\* imageHistory.find(img => img.id === id): the index of the first match, 0 if none
RECURSIVE FindFrom(_, _, _)
FindFrom(history, id, i) ==
  IF i > Len(history) THEN 0
  ELSE IF history[i].id = id THEN i ELSE FindFrom(history, id, i + 1)

Find(history, id) == FindFrom(history, id, 1)

\* const activeImage = imageHistory.find(img => img.id === activeImageId)
HasActiveImage == Find(imageHistory, activeImageId) # 0
activeImage == imageHistory[Find(imageHistory, activeImageId)]

\* contextSources.filter(source => source.id !== id)
RECURSIVE WithoutId(_, _)
WithoutId(sources, id) ==
  IF sources = <<>> THEN <<>>
  ELSE IF Head(sources).id = id THEN WithoutId(Tail(sources), id)
       ELSE <<Head(sources)>> \o WithoutId(Tail(sources), id)

\* the text handleGenerate builds for one context source
SourceText(source, index) ==
  IF source.type = "file"
  THEN <<"SOURCE ", ToString(index), " (File: ">> \o source.name \o <<"):\n">> \o source.content
  ELSE <<"SOURCE ", ToString(index), " (URL: ">> \o source.content
         \o <<"):\nPlease visit this URL to gather relevant context.">>

\* contextData: <<>> stands for null (no context source)
ContextData(sources) ==
  Join([ i \in 1..Len(sources) |-> SourceText(sources[i], i) ], <<"\n\n---\n\n">>)

\* let effectiveTopic = topic.trim(), replaced by a description of the sources
\* when it is empty and there are sources
EffectiveTopic(t, sources) ==
  IF Trim(t) = <<>> /\ Len(sources) > 0
  THEN <<"Create a comprehensive infographic visualizing the key concepts from the provided sources (">>
         \o Join([ i \in 1..Len(sources) |-> sources[i].name ], <<", ">>) \o <<").">>
  ELSE Trim(t)

\* variant: the 403 test is missing from the condition
IsAccessErrorWithout403(err) ==
  /\ err.message # <<>>
  /\ \/ Includes(err.message, <<"Requested entity was not found">>)
     \/ Includes(err.message, <<"4", "0", "4">>)

\* variant: the condition also tests for 401
IsAccessErrorWith401(err) ==
  /\ err.message # <<>>
  /\ \/ Includes(err.message, <<"Requested entity was not found">>)
     \/ Includes(err.message, <<"4", "0", "4">>)
     \/ Includes(err.message, <<"4", "0", "3">>)
     \/ Includes(err.message, <<"4", "0", "1">>)

\* the condition of the catch blocks: the error is an access/entitlement failure
IsAccessError(err) ==
  /\ err.message # <<>>
  /\ \/ Includes(err.message, <<"Requested entity was not found">>)
     \/ Includes(err.message, <<"4", "0", "4">>)
     \/ Includes(err.message, <<"4", "0", "3">>)

\* a request to one of the endpoints; fields an endpoint does not take are empty
Request(api, text, level, style, lang, context, ratio, res, image) ==
  [ api |-> api, text |-> text, level |-> level, style |-> style, language |-> lang,
    context |-> context, aspectRatio |-> ratio, resolution |-> res, image |-> image ]

ResearchRequest(t, level, style, lang, context) ==
  Request("research", t, level, style, lang, context, Null, Null, <<>>)
ImageRequest(prompt, ratio, res) ==
  Request("image", prompt, Null, Null, Null, <<>>, ratio, res, <<>>)
EditRequest(image, instruction) ==
  Request("edit", instruction, Null, Null, Null, <<>>, Null, Null, cleanBase64(image))

Remove(seq, i) == SubSeq(seq, 1, i - 1) \o SubSeq(seq, i + 1, Len(seq))

CyclesStarted == sent.research + sent.edit

\* variant: the entry's prompt is the prompt sent to the image model
NewImageWithRequestPrompt(c, data) ==
  [ id |-> ToString(now), data |-> data, prompt |-> c.request.text, timestamp |-> now,
    level |-> c.level, style |-> c.style, language |-> c.language,
    aspectRatio |-> c.aspectRatio, resolution |-> c.resolution ]

\* the GeneratedImage a cycle builds from its closure when its last call returned data
NewImage(c, data) ==
  [ id |-> ToString(now), data |-> data, prompt |-> c.prompt, timestamp |-> now,
    level |-> c.level, style |-> c.style, language |-> c.language,
    aspectRatio |-> c.aspectRatio, resolution |-> c.resolution ]

\* variant: setImageHistory(prev => [...prev, newImage])
PrependAtEnd(newImage, prev) == prev \o <<newImage>>

\* setImageHistory(prev => [newImage, ...prev])
Prepend(newImage, prev) == <<newImage>> \o prev

\* variant: the save effect does not write
SavedNothing(history) == localStorage

\* the save effect: localStorage.setItem(STORAGE_KEY, JSON.stringify(imageHistory))
Saved(history) ==
  [ localStorage EXCEPT !.infogenius_history_v1 = Stored(Stringify(history)) ]

\* uploadToGCS(base64Data, id) up to its first await: skipped when unconfigured
\* (the promise is then settled and its finally callback sets the timer)
StartUpload(data, id) ==
  LET config == getGCSConfig IN
  IF ~config.isConfigured
  THEN /\ timers' = Append(timers, SyncDelay)
       /\ settled' = << [ id |-> id, result |-> FALSE, posts |-> <<>> ] >>
       /\ UNCHANGED uploads
  ELSE /\ uploads' = Append(uploads, [ id |-> id, data |-> data, awaiting |-> "blob",
                                        bucket |-> config.bucket, token |-> config.token,
                                        posts |-> <<>> ])
       /\ UNCHANGED << timers, settled >>

\* the try block after the last await, and the finally block
CycleSucceeds(i, data) ==
  LET c == cycles[i]
      newImage == NewImage(c, data)
  IN /\ imageHistory' = Prepend(newImage, imageHistory)
     /\ activeImageId' = newImage.id
     /\ isSyncing' = TRUE
     /\ StartUpload(data, newImage.id)
     /\ isLoading' = FALSE
     /\ loadingStep' = 0
     /\ localStorage' = Saved(imageHistory')
     /\ cycles' = Remove(cycles, i)
     /\ produced' = Append(produced, data)
     /\ UNCHANGED << topic, contextSources, params, loadingFacts, error,
                     currentSearchResults, hasApiKey, env, storageStatus, now, console, sent,
                     ignored >>

\* the message the catch block of a handler shows for an error
ErrorMessage(kind, err) ==
  IF IsAccessError(err)
  THEN (IF kind = "generate" THEN AccessDeniedGenerate ELSE AccessDeniedEdit)
  ELSE (IF kind = "generate" THEN ServiceUnavailable ELSE ModificationFailed)

\* variant: the catch block logs the error and sets no message
CycleFailsSilently(i, err) ==
  /\ console' = << err >>
  /\ hasApiKey' = IF IsAccessError(err) THEN FALSE ELSE hasApiKey
  /\ isLoading' = FALSE
  /\ loadingStep' = 0
  /\ cycles' = Remove(cycles, i)
  /\ UNCHANGED << topic, contextSources, activeImageId, params, isSyncing, loadingFacts,
                  error, imageHistory, currentSearchResults, localStorage, env, storageStatus, settled, uploads,
                  timers, now, sent, produced, ignored >>

\* variant: the catch block sends the failed request again
CycleFailsRetrying(i, err) ==
  /\ console' = << err >>
  /\ sent' = [ sent EXCEPT ![cycles[i].request.api] = @ + 1 ]
  /\ UNCHANGED << topic, contextSources, activeImageId, params, isLoading, isSyncing,
                  loadingStep, loadingFacts, error, imageHistory, currentSearchResults,
                  hasApiKey, localStorage, env, storageStatus, settled, cycles, uploads,
                  timers, now, produced, ignored >>

\* variant: the handler has no finally block
CycleFailsStuck(i, err) ==
  /\ console' = << err >>
  /\ error' = ErrorMessage(cycles[i].kind, err)
  /\ hasApiKey' = IF IsAccessError(err) THEN FALSE ELSE hasApiKey
  /\ cycles' = Remove(cycles, i)
  /\ UNCHANGED << topic, contextSources, activeImageId, params, isLoading, isSyncing,
                  loadingStep, loadingFacts, imageHistory, currentSearchResults, localStorage,
                  env, storageStatus, settled, uploads, timers, now, sent, produced, ignored >>

\* the catch block and the finally block
CycleFails(i, err) ==
  /\ console' = << err >>
  /\ error' = ErrorMessage(cycles[i].kind, err)
  /\ hasApiKey' = IF IsAccessError(err) THEN FALSE ELSE hasApiKey
  /\ isLoading' = FALSE
  /\ loadingStep' = 0
  /\ cycles' = Remove(cycles, i)
  /\ UNCHANGED << topic, contextSources, activeImageId, params, isSyncing, loadingFacts,
                  imageHistory, currentSearchResults, localStorage, env, storageStatus, settled, uploads,
                  timers, now, sent, produced, ignored >>

\* variant: the handler has no isLoading guard
ReentrantTriggerUnguarded == FALSE

\* if (isLoading) return;
ReentrantTrigger == isLoading

\* variant: the topic is tested without trim()
NothingToVisualizeUntrimmed == topic = <<>> /\ Len(contextSources) = 0

\* !topic.trim() && contextSources.length === 0
NothingToVisualize == Trim(topic) = <<>> /\ Len(contextSources) = 0

\* handleGenerate up to its first await
handleGenerate ==
  \/ /\ ReentrantTrigger
     /\ ignored' = Min(ignored + 1, MaxIgnored)
     /\ UNCHANGED << controller, localStorage, env, storageStatus, settled, cycles, uploads, timers, now,
                     console, sent, produced >>
  \/ /\ ~ReentrantTrigger
     /\ NothingToVisualize
     /\ error' = ValidationError
     /\ UNCHANGED << topic, contextSources, activeImageId, params, isLoading, isSyncing,
                     loadingStep, loadingFacts, imageHistory, currentSearchResults,
                     hasApiKey, localStorage, env, storageStatus, settled, cycles, uploads, timers, now,
                     console, sent, produced, ignored >>
  \/ /\ ~ReentrantTrigger
     /\ ~NothingToVisualize
     /\ CyclesStarted < MaxCycles
     /\ isLoading' = TRUE
     /\ error' = Null
     /\ loadingStep' = 1
     /\ loadingFacts' = <<>>
     /\ currentSearchResults' = <<>>
     /\ LET effectiveTopic == EffectiveTopic(topic, contextSources)
        IN cycles' = Append(cycles,
             [ kind |-> "generate", prompt |-> effectiveTopic,
               level |-> complexityLevel, style |-> visualStyle, language |-> language,
               aspectRatio |-> aspectRatio, resolution |-> resolution,
               request |-> ResearchRequest(effectiveTopic, complexityLevel, visualStyle,
                                           language, ContextData(contextSources)) ])
     /\ sent' = [ sent EXCEPT !.research = @ + 1 ]
     /\ UNCHANGED << topic, contextSources, activeImageId, params, isSyncing,
                     imageHistory, hasApiKey, localStorage, env, storageStatus, settled, uploads, timers, now,
                     console, produced, ignored >>

\* researchTopicForPrompt resolves: handleGenerate runs on to its second await
ResearchResolvesWith(i, r) ==
    /\ cycles[i].request.api = "research"
    /\ loadingFacts' = r.facts
    /\ currentSearchResults' = r.searchResults
    /\ loadingStep' = 2
    /\ cycles' = [ cycles EXCEPT ![i].request =
                     ImageRequest(r.imagePrompt, cycles[i].aspectRatio, cycles[i].resolution) ]
    /\ sent' = [ sent EXCEPT !.image = @ + 1 ]
    /\ UNCHANGED << topic, contextSources, activeImageId, params, isLoading, isSyncing,
                    error, imageHistory, hasApiKey, localStorage, env, storageStatus, settled, uploads, timers,
                    now, console, produced, ignored >>

ResearchResolves ==
  \E i \in 1..Len(cycles) : \E r \in ResearchResults : ResearchResolvesWith(i, r)

\* the text model responds and researchTopicForPrompt parses the response
ResearchRespondsWith(i, response) ==
  /\ cycles[i].request.api = "research"
  /\ ResearchResolvesWith(i, researchTopicForPrompt(cycles[i].request.text,
                            cycles[i].request.level, cycles[i].request.style, response))

ResearchResponds ==
  \E i \in 1..Len(cycles) : \E response \in ResearchResponses : ResearchRespondsWith(i, response)

\* researchTopicForPrompt rejects
ResearchRejects ==
  \E i \in 1..Len(cycles) : \E err \in NetworkErrors :
    /\ cycles[i].request.api = "research"
    /\ CycleFails(i, err)

\* the image model responds: generateInfographicImage returns the data URI or throws
ImageRespondsWith(i, parts) ==
  /\ cycles[i].request.api = "image"
  /\ LET got == generateInfographicImage(parts)
     IN IF got.ok THEN CycleSucceeds(i, got.data) ELSE CycleFails(i, got.err)

ImageResponds ==
  \E i \in 1..Len(cycles) : \E parts \in ImageResponses : ImageRespondsWith(i, parts)

\* the image request rejects
ImageRejects ==
  \E i \in 1..Len(cycles) : \E err \in NetworkErrors :
    /\ cycles[i].request.api = "image"
    /\ CycleFails(i, err)

\* <Infographic onEdit={handleEdit}> is rendered only for activeImage && !isLoading
EditOffered == HasActiveImage /\ ~isLoading

\* variant: the edit takes its parameters from the form's current selection
handleEditFromSelection(editPrompt) ==
  /\ EditOffered
  /\ Truthy(activeImageId)
  /\ HasActiveImage
  /\ CyclesStarted < MaxCycles
  /\ isLoading' = TRUE
  /\ error' = Null
  /\ loadingStep' = 2
  /\ LET currentImage == activeImage
     IN cycles' = Append(cycles,
          [ kind |-> "edit", prompt |-> editPrompt,
            level |-> complexityLevel, style |-> visualStyle,
            language |-> language, aspectRatio |-> aspectRatio,
            resolution |-> resolution,
            request |-> EditRequest(currentImage.data, editPrompt) ])
  /\ sent' = [ sent EXCEPT !.edit = @ + 1 ]
  /\ UNCHANGED << topic, contextSources, activeImageId, params, isSyncing, loadingFacts,
                  imageHistory, currentSearchResults, hasApiKey, localStorage, env, storageStatus, settled,
                  uploads, timers, now, console, produced, ignored >>

\* handleEdit up to its await
handleEdit(editPrompt) ==
  /\ EditOffered
  /\ Truthy(activeImageId)
  /\ HasActiveImage
  /\ CyclesStarted < MaxCycles
  /\ isLoading' = TRUE
  /\ error' = Null
  /\ loadingStep' = 2
  /\ LET currentImage == activeImage
     IN cycles' = Append(cycles,
          [ kind |-> "edit", prompt |-> editPrompt,
            level |-> currentImage.level, style |-> currentImage.style,
            language |-> currentImage.language, aspectRatio |-> currentImage.aspectRatio,
            resolution |-> currentImage.resolution,
            request |-> EditRequest(currentImage.data, editPrompt) ])
  /\ sent' = [ sent EXCEPT !.edit = @ + 1 ]
  /\ UNCHANGED << topic, contextSources, activeImageId, params, isSyncing, loadingFacts,
                  imageHistory, currentSearchResults, hasApiKey, localStorage, env, storageStatus, settled,
                  uploads, timers, now, console, produced, ignored >>

EditTriggered == \E editPrompt \in EditPrompts : handleEdit(editPrompt)

\* the edit model responds: editInfographicImage returns the data URI or throws
EditRespondsWith(i, parts) ==
  /\ cycles[i].request.api = "edit"
  /\ LET got == editInfographicImage(parts)
     IN IF got.ok THEN CycleSucceeds(i, got.data) ELSE CycleFails(i, got.err)

EditResponds ==
  \E i \in 1..Len(cycles) : \E parts \in ImageResponses : EditRespondsWith(i, parts)

\* the edit request rejects
EditRejects ==
  \E i \in 1..Len(cycles) : \E err \in NetworkErrors :
    /\ cycles[i].request.api = "edit"
    /\ CycleFails(i, err)

\* ------------------------------------------------------------ user events
\* onChange of the topic input; the form takes no pointer events while loading
setTopic(inputs) ==
  \E t \in inputs :
    /\ ~isLoading
    /\ topic' = t
    /\ UNCHANGED << contextSources, activeImageId, params, isLoading, isSyncing,
                    loadingStep, loadingFacts, error, imageHistory, currentSearchResults,
                    hasApiKey, localStorage, env, storageStatus, settled, cycles, uploads, timers, now, console,
                    sent, produced, ignored >>

\* the five selectors of the form
setComplexityLevel ==
  \E v \in ComplexityLevels :
    /\ ~isLoading
    /\ complexityLevel' = v
    /\ UNCHANGED << topic, contextSources, activeImageId, visualStyle, language,
                    aspectRatio, resolution, isLoading, isSyncing, loadingStep,
                    loadingFacts, error, imageHistory, currentSearchResults, hasApiKey,
                    localStorage, env, storageStatus, settled, cycles, uploads, timers, now, console, sent,
                    produced, ignored >>

setVisualStyle ==
  \E v \in VisualStyles :
    /\ ~isLoading
    /\ visualStyle' = v
    /\ UNCHANGED << topic, contextSources, activeImageId, complexityLevel, language,
                    aspectRatio, resolution, isLoading, isSyncing, loadingStep,
                    loadingFacts, error, imageHistory, currentSearchResults, hasApiKey,
                    localStorage, env, storageStatus, settled, cycles, uploads, timers, now, console, sent,
                    produced, ignored >>

setLanguage ==
  \E v \in Languages :
    /\ ~isLoading
    /\ language' = v
    /\ UNCHANGED << topic, contextSources, activeImageId, complexityLevel, visualStyle,
                    aspectRatio, resolution, isLoading, isSyncing, loadingStep,
                    loadingFacts, error, imageHistory, currentSearchResults, hasApiKey,
                    localStorage, env, storageStatus, settled, cycles, uploads, timers, now, console, sent,
                    produced, ignored >>

setAspectRatio ==
  \E v \in AspectRatios :
    /\ ~isLoading
    /\ aspectRatio' = v
    /\ UNCHANGED << topic, contextSources, activeImageId, complexityLevel, visualStyle,
                    language, resolution, isLoading, isSyncing, loadingStep,
                    loadingFacts, error, imageHistory, currentSearchResults, hasApiKey,
                    localStorage, env, storageStatus, settled, cycles, uploads, timers, now, console, sent,
                    produced, ignored >>

setResolution ==
  \E v \in Resolutions :
    /\ ~isLoading
    /\ resolution' = v
    /\ UNCHANGED << topic, contextSources, activeImageId, complexityLevel, visualStyle,
                    language, aspectRatio, isLoading, isSyncing, loadingStep,
                    loadingFacts, error, imageHistory, currentSearchResults, hasApiKey,
                    localStorage, env, storageStatus, settled, cycles, uploads, timers, now, console, sent,
                    produced, ignored >>

\* handleUrlSubmit with a non-blank link
handleUrlSubmit ==
  \E url \in UrlInputs : \E id \in SourceIds :
    /\ ~isLoading
    /\ Len(contextSources) < MaxSources
    /\ Trim(url) # <<>>
    /\ contextSources' = Append(contextSources,
         [ id |-> id, type |-> "url", name |-> url, content |-> url ])
    /\ error' = Null
    /\ UNCHANGED << topic, activeImageId, params, isLoading, isSyncing, loadingStep,
                    loadingFacts, imageHistory, currentSearchResults, hasApiKey,
                    localStorage, env, storageStatus, settled, cycles, uploads, timers, now, console, sent,
                    produced, ignored >>

removeContextSource ==
  \E i \in 1..Len(contextSources) :
    /\ ~isLoading
    /\ contextSources' = WithoutId(contextSources, contextSources[i].id)
    /\ UNCHANGED << topic, activeImageId, params, isLoading, isSyncing, loadingStep,
                    loadingFacts, error, imageHistory, currentSearchResults, hasApiKey,
                    localStorage, env, storageStatus, settled, cycles, uploads, timers, now, console, sent,
                    produced, ignored >>

handleNewSession ==
  /\ topic' = <<>>
  /\ contextSources' = <<>>
  /\ activeImageId' = Null
  /\ currentSearchResults' = <<>>
  /\ error' = Null
  /\ loadingFacts' = <<>>
  /\ loadingStep' = 0
  /\ UNCHANGED << params, isLoading, isSyncing, imageHistory, hasApiKey, localStorage,
                  env, storageStatus, settled, cycles, uploads, timers, now, console, sent, produced, ignored >>

\* variant: a confirmed clear deletes the active entry only
handleClearHistoryActiveOnly ==
  \E confirmed \in BOOLEAN :
    /\ Len(imageHistory) > 0
    /\ IF confirmed
       THEN /\ imageHistory' = SelectSeq(imageHistory, LAMBDA img : img.id # activeImageId)
            /\ activeImageId' = Null
            /\ currentSearchResults' = <<>>
            /\ localStorage' = Saved(imageHistory')
            /\ produced' = <<>>
       ELSE UNCHANGED << imageHistory, activeImageId, currentSearchResults, localStorage,
                         produced >>
    /\ UNCHANGED << topic, contextSources, params, isLoading, isSyncing, loadingStep,
                    loadingFacts, error, hasApiKey, env, storageStatus, settled, cycles, uploads,
                    timers, now, console, sent, ignored >>

\* variant: a confirmed clear leaves activeImageId as it is
handleClearHistoryKeepingActive ==
  \E confirmed \in BOOLEAN :
    /\ Len(imageHistory) > 0
    /\ IF confirmed
       THEN /\ imageHistory' = <<>>
            /\ currentSearchResults' = <<>>
            /\ localStorage' = Saved(imageHistory')
            /\ produced' = <<>>
            /\ UNCHANGED activeImageId
       ELSE UNCHANGED << imageHistory, activeImageId, currentSearchResults, localStorage,
                         produced >>
    /\ UNCHANGED << topic, contextSources, params, isLoading, isSyncing, loadingStep,
                    loadingFacts, error, hasApiKey, env, storageStatus, settled, cycles, uploads,
                    timers, now, console, sent, ignored >>

\* the Clear All button of the archive, shown while the history is not empty;
\* confirmed is the answer to window.confirm
handleClearHistory ==
  \E confirmed \in BOOLEAN :
    /\ Len(imageHistory) > 0
    /\ IF confirmed
       THEN /\ imageHistory' = <<>>
            /\ activeImageId' = Null
            /\ currentSearchResults' = <<>>
            /\ localStorage' = Saved(imageHistory')
            /\ produced' = <<>>
       ELSE UNCHANGED << imageHistory, activeImageId, currentSearchResults, localStorage,
                         produced >>
    /\ UNCHANGED << topic, contextSources, params, isLoading, isSyncing, loadingStep,
                    loadingFacts, error, hasApiKey, env, storageStatus, settled, cycles, uploads, timers, now,
                    console, sent, ignored >>

\* onClick of an archive entry: setActiveImageId(img.id)
selectArchive ==
  \E i \in 1..Len(imageHistory) :
    /\ activeImageId' = imageHistory[i].id
    /\ UNCHANGED << topic, contextSources, params, isLoading, isSyncing, loadingStep,
                    loadingFacts, error, imageHistory, currentSearchResults, hasApiKey,
                    localStorage, env, storageStatus, settled, cycles, uploads, timers, now, console, sent,
                    produced, ignored >>

\* handleSelectKey once openSelectKey() has resolved
handleSelectKey ==
  /\ hasApiKey' = TRUE
  /\ error' = Null
  /\ UNCHANGED << topic, contextSources, activeImageId, params, isLoading, isSyncing,
                  loadingStep, loadingFacts, imageHistory, currentSearchResults,
                  localStorage, env, storageStatus, settled, cycles, uploads, timers, now, console, sent,
                  produced, ignored >>

\* the page is reloaded: the state of the component is lost with the calls
\* and timers it was waiting for, the component mounts again on the same local
\* storage and its load and save effects run
reload ==
  LET saved == localStorage.infogenius_history_v1
      parsed == IF saved # <<>> THEN Parse(saved[1]) ELSE <<>>
  IN /\ topic' = <<>>
     /\ contextSources' = <<>>
     /\ imageHistory' = parsed
     /\ activeImageId' = (IF Len(parsed) > 0 THEN parsed[1].id ELSE Null)
     /\ complexityLevel' = "Expert"
     /\ visualStyle' = "Default"
     /\ language' = "English"
     /\ aspectRatio' = "16:9"
     /\ resolution' = "1K"
     /\ isLoading' = FALSE
     /\ isSyncing' = FALSE
     /\ loadingStep' = 0
     /\ loadingFacts' = <<>>
     /\ error' = Null
     /\ currentSearchResults' = <<>>
     /\ hasApiKey' = TRUE
     /\ localStorage' = Saved(imageHistory')
     /\ storageStatus' = getGCSConfig
     /\ settled' = <<>>
     /\ cycles' = <<>>
     /\ uploads' = <<>>
     /\ timers' = <<>>
     /\ console' = <<>>
     /\ UNCHANGED << env, now, sent, produced, ignored >>

\* ------------------------------------------------------- storage settings
\* what the user may leave in the two fields of the settings form
BucketInputs == { "", "override-bucket" }
TokenInputs == { "", "override-token" }

\* handleSave of StorageSettingsModal: a filled field is stored, an empty one removed
handleSave ==
  \E bucket \in BucketInputs : \E token \in TokenInputs :
    /\ localStorage' =
         [ localStorage EXCEPT
             !.gcs_bucket_override = IF Truthy(bucket) THEN bucket ELSE Null,
             !.gcs_token_override = IF Truthy(token) THEN token ELSE Null ]
    /\ UNCHANGED << controller, env, storageStatus, settled, cycles, uploads, timers, now,
                    console, sent, produced, ignored >>

\* onClose of StorageSettingsModal: setStorageStatus(getGCSConfig())
closeStorageModal ==
  /\ storageStatus' = getGCSConfig
  /\ UNCHANGED << controller, localStorage, env, settled, cycles, uploads, timers, now,
                  console, sent, produced, ignored >>

\* ---------------------------------------------------------------- uploader
\* statuses the storage endpoint may answer with
UploadStatuses ==
  { [ code |-> 200, text |-> <<"2", "0", "0">> ], [ code |-> 401, text |-> <<"4", "0", "1">> ],
    [ code |-> 403, text |-> <<"4", "0", "3">> ], [ code |-> 500, text |-> <<"5", "0", "0">> ] }

\* variant: the response is not tested
ResponseOkUntested(status) == TRUE

\* response.ok
ResponseOk(status) == status >= 200 /\ status <= 299

\* the Error uploadToGCS throws for a response that is not ok
GcsApiError(status) ==
  Err(<<"GCS API error (">> \o status \o <<"): ", "diagnostic text">>)

\* variant: the finally callback also reports the upload to the user
UploadSettlesReporting(i) ==
  /\ uploads' = Remove(uploads, i)
  /\ timers' = Append(timers, SyncDelay)
  /\ error' = "Cloud sync finished."
  /\ UNCHANGED << topic, contextSources, activeImageId, params, isLoading, isSyncing,
                  loadingStep, loadingFacts, imageHistory, currentSearchResults,
                  hasApiKey >>

\* variant: the finally callback sets its timer without a delay
UploadSettlesWithoutDelay(i) ==
  /\ uploads' = Remove(uploads, i)
  /\ timers' = Append(timers, 0)
  /\ UNCHANGED controller

\* uploadToGCS has settled, resolving to result: its finally callback runs
\* setTimeout(() => setIsSyncing(false), 2000)
UploadSettles(i) ==
  /\ uploads' = Remove(uploads, i)
  /\ timers' = Append(timers, SyncDelay)
  /\ UNCHANGED controller

\* base64Data.match(/^data:([^;]+);base64,/): the mime type a data URI names
MimeType(uri) ==
  IF uri # <<>> /\ Head(uri) = "data:image/png;base64," THEN "image/png"
  ELSE IF uri # <<>> /\ Head(uri) = "data:image/jpeg;base64," THEN "image/jpeg"
  ELSE "image/png"

\* variant: the file name leaves the id out
UploadRequestWithoutId(upload) ==
  LET fileName == <<"infographic", ".png">>
  IN [ method |-> "POST",
       url |-> <<"https://storage.googleapis.com/upload/storage/v1/b/", upload.bucket,
                 "/o?uploadType=media&name=">> \o fileName,
       name |-> fileName,
       authorization |-> <<"Bearer ", upload.token>>,
       contentType |-> MimeType(upload.data) ]

\* the file name, the URL and the headers of the POST
UploadRequest(upload) ==
  LET fileName == <<"infographic_", upload.id, ".png">>
  IN [ method |-> "POST",
       url |-> <<"https://storage.googleapis.com/upload/storage/v1/b/", upload.bucket,
                 "/o?uploadType=media&name=">> \o fileName,
       name |-> fileName,
       authorization |-> <<"Bearer ", upload.token>>,
       contentType |-> MimeType(upload.data) ]

\* what uploadToGCS resolves to once it has the response, or has caught an error
Resolved(upload, result) ==
  << [ id |-> upload.id, result |-> result, posts |-> upload.posts ] >>

\* fetch(base64Data).blob() resolves and the POST is issued
UploadDecodes ==
  \E i \in 1..Len(uploads) :
    /\ uploads[i].awaiting = "blob"
    /\ uploads' = [ uploads EXCEPT ![i].awaiting = "post",
                                   ![i].posts = Append(@, UploadRequest(uploads[i])) ]
    /\ sent' = [ sent EXCEPT !.upload = @ + 1 ]
    /\ UNCHANGED << controller, localStorage, env, storageStatus, settled, cycles, timers,
                    now, console, produced, ignored >>

\* decoding or the POST throws: caught and logged, uploadToGCS resolves to false
UploadThrowsAt(i) ==
  /\ UploadSettles(i)
  /\ settled' = Resolved(uploads[i], FALSE)
  /\ console' = << Err(<<"Failed to fetch">>) >>
  /\ UNCHANGED << localStorage, env, storageStatus, cycles, now, sent, produced, ignored >>

UploadThrows == \E i \in 1..Len(uploads) : UploadThrowsAt(i)

\* the storage endpoint answers the POST: true for 2xx, else the error is
\* thrown, caught and logged and uploadToGCS resolves to false
UploadRespondsWith(i, status) ==
  /\ uploads[i].awaiting = "post"
  /\ UploadSettles(i)
  /\ settled' = Resolved(uploads[i], ResponseOk(status.code))
  /\ console' = IF ResponseOk(status.code) THEN console
                ELSE << GcsApiError(status.text) >>
  /\ UNCHANGED << localStorage, env, storageStatus, cycles, now, sent, produced, ignored >>

UploadResponds ==
  \E i \in 1..Len(uploads) : \E status \in UploadStatuses : UploadRespondsWith(i, status)

\* a timer set by a finally callback fires: setIsSyncing(false)
TimerFires ==
  \E i \in 1..Len(timers) :
    /\ timers[i] = 0
    /\ isSyncing' = FALSE
    /\ timers' = Remove(timers, i)
    /\ UNCHANGED << topic, contextSources, activeImageId, params, isLoading, loadingStep,
                    loadingFacts, error, imageHistory, currentSearchResults, hasApiKey,
                    localStorage, env, storageStatus, settled, cycles, uploads, now, console, sent, produced,
                    ignored >>

\* time passes
Tick ==
  /\ now' = IF now < MaxTicks * TickMs THEN now + TickMs ELSE now
  /\ timers' = [ i \in 1..Len(timers) |->
                   IF timers[i] > TickMs THEN timers[i] - TickMs ELSE 0 ]
  /\ UNCHANGED << controller, localStorage, env, storageStatus, settled, cycles, uploads, console, sent,
                  produced, ignored >>

\* ----------------------------------------------------------- initial state
NoEnv == [ GCS_BUCKET_NAME |-> Null, GCS_ACCESS_TOKEN |-> Null, GCS_CREDENTIALS |-> Null ]
TokenEnv ==
  [ GCS_BUCKET_NAME |-> "my-bucket", GCS_ACCESS_TOKEN |-> "ya29.token", GCS_CREDENTIALS |-> Null ]

\* a history saved by an earlier session (ids are times before this one started)
StoredImage(t, data, prompt) ==
  [ id |-> ToString(t), data |-> <<DataUriPrefix, data>>, prompt |-> prompt, timestamp |-> t,
    level |-> "Elementary", style |-> "Sketch", language |-> "Spanish",
    aspectRatio |-> "1:1", resolution |-> "2K" ]

StoredHistory ==
  << StoredImage(0 - TickMs, "ZZZZ", <<"Volcanoes">>),
     StoredImage(0 - 2 * TickMs, "YYYY", <<"Tides">>) >>

\* no override saved in local storage
NoOverrides == [ bucket |-> Null, token |-> Null ]

\* the state once the component is mounted and its effects have run: the
\* history is the one parsed from local storage and its first entry is active
MountedWith(stored, environment, key, overrides) ==
  /\ topic = <<>>
  /\ contextSources = <<>>
  /\ activeImageId = (IF Len(stored) > 0 THEN stored[1].id ELSE Null)
  /\ complexityLevel = "Expert"
  /\ visualStyle = "Default"
  /\ language = "English"
  /\ aspectRatio = "16:9"
  /\ resolution = "1K"
  /\ isLoading = FALSE
  /\ isSyncing = FALSE
  /\ loadingStep = 0
  /\ loadingFacts = <<>>
  /\ error = Null
  /\ imageHistory = stored
  /\ currentSearchResults = <<>>
  /\ hasApiKey = key
  /\ localStorage = [ infogenius_history_v1 |-> Stored(Stringify(stored)),
                      gcs_bucket_override |-> overrides.bucket,
                      gcs_token_override |-> overrides.token ]
  /\ env = environment
  /\ storageStatus = getGCSConfig
  /\ settled = <<>>
  /\ cycles = <<>>
  /\ uploads = <<>>
  /\ timers = <<>>
  /\ now = 0
  /\ console = <<>>
  /\ sent = [ research |-> 0, image |-> 0, edit |-> 0, upload |-> 0 ]
  /\ produced = <<>>
  /\ ignored = 0

\* mounted with no override saved in local storage
Mounted(stored, environment, key) == MountedWith(stored, environment, key, NoOverrides)

\* ---------------------------------------------------------- specifications
\* onSubmit of the form, starting at most maxCycles cycles
SubmitForm(maxCycles) ==
  /\ ReentrantTrigger \/ NothingToVisualize \/ CyclesStarted < maxCycles
  /\ handleGenerate

\* The controller with its cycles and every event that may interleave with
\* them; storage is not configured, the form's selectors stay at their defaults.
CycleTopics == { <<" ", "Photosynthesis", " ">> }

Init == Mounted(<<>>, NoEnv, TRUE)

Next ==
  \/ setTopic(CycleTopics)
  \/ handleGenerate
  \/ ResearchResolves
  \/ ResearchRejects
  \/ ImageResponds
  \/ ImageRejects
  \/ EditTriggered
  \/ EditResponds
  \/ EditRejects
  \/ handleNewSession
  \/ handleClearHistory
  \/ selectArchive
  \/ handleSelectKey
  \/ TimerFires
  \/ Tick

Spec == Init /\ [][Next]_vars

\* The form's selectors: a history saved by an earlier session is loaded, the
\* user picks a topic and the five selector values and generates.
SelectorTopics == { <<" ", "Photosynthesis", " ">> }


InitSelectors == Mounted(StoredHistory, NoEnv, TRUE)

NextSelectors ==
  \/ setTopic(SelectorTopics)
  \/ setComplexityLevel
  \/ setVisualStyle
  \/ setLanguage
  \/ setAspectRatio
  \/ setResolution
  \/ SubmitForm(MaxSelectorCycles)
  \/ ResearchResolves
  \/ ImageResponds

SpecSelectors == InitSelectors /\ [][NextSelectors]_vars

\* The form's inputs: topic and context sources, and what handleGenerate
\* makes of them.
InitForm == Mounted(<<>>, NoEnv, TRUE)

NextForm ==
  \/ setTopic(TopicInputs)
  \/ handleUrlSubmit
  \/ removeContextSource
  \/ handleGenerate
  \/ ResearchResolves
  \/ ResearchRejects
  \/ ImageResponds
  \/ handleNewSession

SpecForm == InitForm /\ [][NextForm]_vars

\* Storage is configured: every successful cycle starts a background upload,
\* which settles (or never does) while the controller goes on.
UploadTopics == { <<"Photosynthesis">> }

InitUpload == Mounted(<<>>, TokenEnv, TRUE)

NextUpload ==
  \/ setTopic(UploadTopics)
  \/ SubmitForm(MaxUploadCycles)
  \/ ResearchResolves
  \/ ImageResponds
  \/ ImageRejects
  \/ handleNewSession
  \/ handleClearHistory
  \/ selectArchive
  \/ UploadDecodes
  \/ UploadThrows
  \/ UploadResponds
  \/ TimerFires
  \/ Tick

SpecUpload == InitUpload /\ [][NextUpload]_vars

\* The storage service under every configuration: the environment and the
\* overrides found at mount are any combination of present and absent values,
\* the user edits the overrides, and a cycle's upload runs against them.
StorageEnvs ==
  { [ GCS_BUCKET_NAME |-> b, GCS_ACCESS_TOKEN |-> a, GCS_CREDENTIALS |-> c ] :
      b \in { Null, "env-bucket" }, a \in { Null, "", "ya29.token" },
      c \in { Null, "service-account" } }

StorageOverrides ==
  { [ bucket |-> b, token |-> t ] :
      b \in { Null, "override-bucket" }, t \in { Null, "override-token" } }

InitStorage ==
  \E environment \in StorageEnvs : \E overrides \in StorageOverrides :
    MountedWith(<<>>, environment, TRUE, overrides)

NextStorage ==
  \/ handleSave
  \/ closeStorageModal
  \/ setTopic(UploadTopics)
  \/ SubmitForm(MaxUploadCycles)
  \/ ResearchResolves
  \/ ImageResponds
  \/ UploadDecodes
  \/ UploadThrows
  \/ UploadResponds

SpecStorage == InitStorage /\ [][NextStorage]_vars

\* The research client: the text model answers with any of the responses and
\* the controller goes on with what researchTopicForPrompt parsed.
ResearchTopics == { <<"Photosynthesis">> }

InitResearch == Mounted(<<>>, NoEnv, TRUE)

NextResearch ==
  \/ setTopic(ResearchTopics)
  \/ setComplexityLevel
  \/ setVisualStyle
  \/ SubmitForm(MaxResearchCycles)
  \/ ResearchResponds
  \/ ImageResponds

SpecResearch == InitResearch /\ [][NextResearch]_vars

\* Edits of a history saved by an earlier session: the entries carry other
\* parameters than the form's selection, and the user may select another
\* entry or clear the archive while the edit is in flight.
InitEdit == Mounted(StoredHistory, NoEnv, TRUE)

NextEdit ==
  \/ EditTriggered
  \/ EditResponds
  \/ EditRejects
  \/ selectArchive
  \/ setComplexityLevel
  \/ handleClearHistory
  \/ Tick

SpecEdit == InitEdit /\ [][NextEdit]_vars

\* Persistence: cycles add entries, the archive is cleared, a new
\* session is started, the page is reloaded; the session starts with or
\* without a saved history.
InitPersist == Mounted(<<>>, NoEnv, TRUE) \/ Mounted(StoredHistory, NoEnv, TRUE)

NextPersist ==
  \/ setTopic(UploadTopics)
  \/ SubmitForm(MaxCycles)
  \/ ResearchResolves
  \/ ImageResponds
  \/ handleNewSession
  \/ handleClearHistory
  \/ selectArchive
  \/ reload
  \/ Tick

SpecPersist == InitPersist /\ [][NextPersist]_vars

\* The cycles when every awaited call settles: a call that is outstanding
\* is eventually answered or rejected; what the user does is not constrained.
InitLive == Mounted(<<>>, NoEnv, TRUE)

NextLive ==
  \/ setTopic(CycleTopics)
  \/ handleGenerate
  \/ ResearchResolves
  \/ ResearchRejects
  \/ ImageResponds
  \/ ImageRejects
  \/ EditTriggered
  \/ EditResponds
  \/ EditRejects
  \/ handleNewSession
  \/ selectArchive

SpecLive ==
  /\ InitLive
  /\ [][NextLive]_vars
  /\ WF_vars(ResearchResolves \/ ResearchRejects)
  /\ WF_vars(ImageResponds \/ ImageRejects)
  /\ WF_vars(EditResponds \/ EditRejects)

\* Two uploads: storage is configured and a second cycle may end, and start
\* its upload, while the upload or the timer of the first is still pending.
InitSync == Mounted(<<>>, TokenEnv, TRUE)

NextSync ==
  \/ setTopic(UploadTopics)
  \/ SubmitForm(MaxSyncCycles)
  \/ ResearchResolves
  \/ ImageResponds
  \/ UploadDecodes
  \/ UploadThrows
  \/ UploadResponds
  \/ TimerFires
  \/ Tick

SpecSync == InitSync /\ [][NextSync]_vars

HistoryNewestFirst ==
  /\ Len(imageHistory) = Len(produced)
  /\ \A i \in 1..Len(imageHistory) :
       imageHistory[i].data = produced[Len(produced) + 1 - i]
  /\ \A i \in 1..(Len(imageHistory) - 1) :
       imageHistory[i].timestamp >= imageHistory[i + 1].timestamp

\* two cycles have succeeded with different images, at different times
TwoImagesProduced ==
  /\ Len(produced) = 2
  /\ produced[1] # produced[2]
  /\ Len(imageHistory) = 2
  /\ imageHistory[1].timestamp > imageHistory[2].timestamp

\* C7: a cycle that fails with a message containing "Requested entity was not
\* found", "404" or "403" shows the Access denied message and sets hasApiKey
\* to false; any other failure shows the generic message of its handler and
\* leaves hasApiKey unchanged.
FailureIsClassified ==
  [][ (Len(cycles') < Len(cycles) /\ Len(imageHistory') = Len(imageHistory)) =>
        LET message == console'[1].message
            generate == cycles[1].kind = "generate"
        IN IF \/ Includes(message, <<"Requested entity was not found">>)
              \/ Includes(message, <<"4", "0", "4">>)
              \/ Includes(message, <<"4", "0", "3">>)
           THEN /\ error' = (IF generate THEN AccessDeniedGenerate ELSE AccessDeniedEdit)
                /\ hasApiKey' = FALSE
           ELSE /\ error' = (IF generate THEN ServiceUnavailable ELSE ModificationFailed)
                /\ hasApiKey' = hasApiKey ]_vars

\* a cycle has failed with a 403 and the key is gone
AccessDenied ==
  /\ console = << Err403 >>
  /\ error = AccessDeniedGenerate
  /\ ~hasApiKey
  /\ ~isLoading

\* C8 (as stated): a cycle that fails with a 401-style message is treated as an
\* entitlement failure: hasApiKey becomes false.
UnauthorizedClearsKey ==
  [][ ( /\ Len(cycles') < Len(cycles)
        /\ Len(imageHistory') = Len(imageHistory)
        /\ Includes(console'[1].message, <<"4", "0", "1">>) )
      => hasApiKey' = FALSE ]_vars

\* C8 (amended): a cycle that fails with a 401-style message containing none of
\* "Requested entity was not found", "404", "403" shows the generic message of
\* its handler and leaves hasApiKey unchanged.
UnauthorizedIsGeneric ==
  [][ ( /\ Len(cycles') < Len(cycles)
        /\ Len(imageHistory') = Len(imageHistory)
        /\ Includes(console'[1].message, <<"4", "0", "1">>)
        /\ ~Includes(console'[1].message, <<"Requested entity was not found">>)
        /\ ~Includes(console'[1].message, <<"4", "0", "4">>)
        /\ ~Includes(console'[1].message, <<"4", "0", "3">>) )
      => /\ hasApiKey' = hasApiKey
         /\ error' \in { ServiceUnavailable, ModificationFailed } ]_vars

\* a cycle has failed with a 401 and the key is still there
UnauthorizedKeptKey ==
  /\ console = << Err401 >>
  /\ error = ServiceUnavailable
  /\ hasApiKey
  /\ ~isLoading

\* C9 (as stated): in a generate cycle loadingStep is 1 while the research
\* request is outstanding and 2 while the image request is outstanding, and it
\* is 0 when no cycle is in flight.
StepFollowsOutstandingRequest ==
  /\ \A i \in 1..Len(cycles) :
       cycles[i].kind = "generate" =>
         loadingStep = (IF cycles[i].request.api = "research" THEN 1 ELSE 2)
  /\ cycles = <<>> => loadingStep = 0

BlankSubmitRejected ==
  [][ ( /\ ~isLoading
        /\ Trim(topic) = <<>>
        /\ Len(contextSources) = 0
        /\ handleGenerate ) =>
        /\ error' = ValidationError
        /\ isLoading' = FALSE
        /\ sent' = sent
        /\ cycles' = cycles
        /\ imageHistory' = imageHistory
        /\ activeImageId' = activeImageId ]_vars

\* a whitespace-only topic without sources has been submitted and rejected
BlankRejected ==
  /\ error = ValidationError
  /\ topic = <<" ">>
  /\ contextSources = <<>>
  /\ ~isLoading
  /\ cycles = <<>>

\* C3: no step of a background upload (decoding, failing, being answered) and
\* no timer its settling sets changes imageHistory, error or activeImageId,
\* whatever the controller did between these steps.
UploadLeavesController ==
  [][ ( \/ (uploads' # uploads /\ Len(uploads') <= Len(uploads))
        \/ Len(timers') < Len(timers) ) =>
      UNCHANGED << imageHistory, error, activeImageId >> ]_vars

\* an upload has been refused by the storage endpoint and its timer has fired
UploadRefused ==
  /\ console = << GcsApiError(<<"4", "0", "3">>) >>
  /\ uploads = <<>>
  /\ timers = <<>>
  /\ ~isSyncing
  /\ Len(imageHistory) = 1
  /\ activeImageId = imageHistory[1].id
  /\ error = Null

\* C10: the step that starts an upload is the step that ends the cycle: it
\* leaves the controller idle with the new entry first in imageHistory and
\* active, whatever happens to the upload. An upload that settles changes no
\* controller state in that step and sets a timer of SyncDelay; isSyncing
\* turns false only when such a timer has run down, and nothing else changes then.
UploadNeverGatesCycle ==
  [][ /\ Len(uploads') > Len(uploads) =>
           /\ ~isLoading' /\ loadingStep' = 0 /\ cycles' = <<>>
           /\ imageHistory'[1].id = uploads'[Len(uploads')].id
           /\ activeImageId' = imageHistory'[1].id
      /\ Len(uploads') < Len(uploads) =>
           /\ UNCHANGED controller
           /\ timers' = Append(timers, SyncDelay)
      /\ (Len(timers') = Len(timers) /\ timers' # timers) =>
           \A i \in 1..Len(timers) : timers'[i] >= timers[i] - TickMs
      /\ (isSyncing /\ ~isSyncing') =>
           /\ \E i \in 1..Len(timers) : timers[i] = 0 /\ timers' = Remove(timers, i)
           /\ UNCHANGED << topic, contextSources, activeImageId, params, isLoading,
                           loadingStep, loadingFacts, error, imageHistory,
                           currentSearchResults, hasApiKey >> ]_vars

\* time has passed since a cycle ended and its upload is still outstanding
IdleWhileUploading ==
  /\ Len(uploads) = 1
  /\ now > 0
  /\ ~isLoading
  /\ loadingStep = 0
  /\ Len(imageHistory) = 1
  /\ imageHistory[1].id = uploads[1].id
  /\ activeImageId = imageHistory[1].id
  /\ isSyncing

\* C11: uploadToGCS always resolves to a boolean: to false at once when
\* storage is not configured, to false when decoding or the POST throws, and,
\* once the storage endpoint has answered, to true exactly when the status is
\* 2xx (so to false for 401, 403 and 500).
UploadResolvesToOutcome ==
  [][ /\ ( /\ Len(imageHistory') > Len(imageHistory)
           /\ ~( /\ \/ localStorage.gcs_bucket_override \notin { Null, "" }
                    \/ env.GCS_BUCKET_NAME \notin { Null, "" }
                 /\ \/ localStorage.gcs_token_override \notin { Null, "" }
                    \/ env.GCS_ACCESS_TOKEN \notin { Null, "" }
                    \/ env.GCS_CREDENTIALS \notin { Null, "" } ) )
         => /\ settled' # <<>>
            /\ settled'[1].result = FALSE
            /\ uploads' = uploads
      /\ Len(uploads') > Len(uploads) => settled' = settled
      /\ \A i \in 1..Len(uploads) :
           /\ UploadThrowsAt(i) => settled'[1].result = FALSE
           /\ \A status \in UploadStatuses :
                UploadRespondsWith(i, status) =>
                  settled'[1].result = (status.code \in 200..299)
      /\ Len(uploads') < Len(uploads) =>
           /\ settled' # <<>>
           /\ settled'[1].result \in BOOLEAN ]_vars

\* a configured upload has been refused with a 403 and has resolved to false
RefusedResolvesFalse ==
  /\ settled # <<>>
  /\ settled[1].result = FALSE
  /\ Len(settled[1].posts) = 1
  /\ console = << GcsApiError(<<"4", "0", "3">>) >>
  /\ storageStatus.isConfigured

\* C12 (as stated): a call issues no upload request when the configuration is
\* unresolved and exactly one when it is resolved.
OnePostPerResolvedCall ==
  [][ /\ (Len(imageHistory') > Len(imageHistory) /\ uploads' = uploads) =>
           settled'[1].posts = <<>>
      /\ Len(uploads') < Len(uploads) => Len(settled'[1].posts) = 1 ]_vars

\* C12 (amended): a call issues no upload request when the configuration is
\* unresolved, none when decoding the data URI throws, and exactly one once
\* the data is decoded, whatever the response; nothing is sent again when the
\* call settles, and the object is named infographic_<id>.png.
AtMostOnePostPerCall ==
  [][ /\ (Len(imageHistory') > Len(imageHistory) /\ uploads' = uploads) =>
           /\ settled'[1].posts = <<>>
           /\ sent'.upload = sent.upload
      /\ Len(uploads') < Len(uploads) =>
           /\ sent'.upload = sent.upload
           /\ \E i \in 1..Len(uploads) :
                /\ uploads' = Remove(uploads, i)
                /\ settled'[1].posts = uploads[i].posts
                /\ Len(uploads[i].posts) = (IF uploads[i].awaiting = "post" THEN 1 ELSE 0)
                /\ \A k \in 1..Len(uploads[i].posts) :
                     /\ uploads[i].posts[k].name = <<"infographic_", settled'[1].id, ".png">>
                     /\ uploads[i].posts[k].method = "POST"
      /\ sent'.upload # sent.upload =>
           /\ sent'.upload = sent.upload + 1
           /\ \E i \in 1..Len(uploads) :
                /\ uploads[i].posts = <<>>
                /\ Len(uploads'[i].posts) = 1
                /\ uploads'[i].posts[1].name = <<"infographic_", uploads[i].id, ".png">> ]_vars

\* an upload was answered after its single POST, named after the image's id
PostedOnce ==
  /\ settled # <<>>
  /\ Len(settled[1].posts) = 1
  /\ settled[1].posts[1].name = <<"infographic_", "0", ".png">>
  /\ Len(imageHistory) = 1
  /\ imageHistory[1].id = "0"
  /\ sent.upload = 1
  /\ uploads = <<>>

\* C13: isConfigured is true exactly when a bucket is available from the
\* override or the environment and a token is available from the override or
\* either environment variable, whichever sources they come from.
ConfiguredIffBucketAndToken ==
  /\ getGCSConfig.isConfigured \in BOOLEAN
  /\ getGCSConfig.isConfigured =
       ( /\ \/ localStorage.gcs_bucket_override \notin { Null, "" }
            \/ env.GCS_BUCKET_NAME \notin { Null, "" }
         /\ \/ localStorage.gcs_token_override \notin { Null, "" }
            \/ env.GCS_ACCESS_TOKEN \notin { Null, "" }
            \/ env.GCS_CREDENTIALS \notin { Null, "" } )

\* the bucket comes from the override and the token from GCS_CREDENTIALS
ConfiguredFromTwoSources ==
  /\ localStorage.gcs_bucket_override = "override-bucket"
  /\ localStorage.gcs_token_override = Null
  /\ env.GCS_BUCKET_NAME = Null
  /\ env.GCS_ACCESS_TOKEN = ""
  /\ env.GCS_CREDENTIALS = "service-account"
  /\ storageStatus.isConfigured
  /\ storageStatus = getGCSConfig

\* C14: source is "manual" when an override (bucket or token) is present, else
\* "env" when an environment value (bucket or either token variable) is
\* present, else "none", whether or not the configuration is complete.
SourceByPrecedence ==
  getGCSConfig.source =
    ( IF \/ localStorage.gcs_bucket_override \notin { Null, "" }
         \/ localStorage.gcs_token_override \notin { Null, "" }
      THEN "manual"
      ELSE IF \/ env.GCS_BUCKET_NAME \notin { Null, "" }
              \/ env.GCS_ACCESS_TOKEN \notin { Null, "" }
              \/ env.GCS_CREDENTIALS \notin { Null, "" }
           THEN "env" ELSE "none" )

\* only a token override is present: manual, and not configured
ManualButIncomplete ==
  /\ localStorage.gcs_bucket_override = Null
  /\ localStorage.gcs_token_override = "override-token"
  /\ env.GCS_BUCKET_NAME = Null
  /\ storageStatus.source = "manual"
  /\ ~storageStatus.isConfigured
  /\ storageStatus = getGCSConfig

\* C15: bucket is the override bucket if present, else the environment's, else
\* ""; token is the override token if present, else GCS_ACCESS_TOKEN if
\* non-empty, else GCS_CREDENTIALS, else ""; and the step that reads the
\* configuration writes neither local storage nor the environment.
FieldsByPriority ==
  /\ [] /\ getGCSConfig.bucket =
             ( IF localStorage.gcs_bucket_override \notin { Null, "" }
               THEN localStorage.gcs_bucket_override
               ELSE IF env.GCS_BUCKET_NAME \notin { Null, "" }
                    THEN env.GCS_BUCKET_NAME ELSE "" )
        /\ getGCSConfig.token =
             ( IF localStorage.gcs_token_override \notin { Null, "" }
               THEN localStorage.gcs_token_override
               ELSE IF env.GCS_ACCESS_TOKEN \notin { Null, "" }
                    THEN env.GCS_ACCESS_TOKEN
                    ELSE IF env.GCS_CREDENTIALS \notin { Null, "" }
                         THEN env.GCS_CREDENTIALS ELSE "" )
  /\ [][ storageStatus' # storageStatus =>
           /\ storageStatus' = getGCSConfig
           /\ UNCHANGED << localStorage, env >> ]_vars

\* both buckets are present and the override wins; the token falls through an
\* empty GCS_ACCESS_TOKEN to GCS_CREDENTIALS
OverrideBucketWins ==
  /\ localStorage.gcs_bucket_override = "override-bucket"
  /\ env.GCS_BUCKET_NAME = "env-bucket"
  /\ localStorage.gcs_token_override = Null
  /\ env.GCS_ACCESS_TOKEN = ""
  /\ env.GCS_CREDENTIALS = "service-account"
  /\ storageStatus.bucket = "override-bucket"
  /\ storageStatus.token = "service-account"

\* C16 (as stated): the citations returned are one per distinct URL, each the
\* first entry of the grounding list with that URL, title included.
FirstOccurrenceWins ==
  [][ \A i \in 1..Len(cycles) : \A response \in ResearchResponses :
        ResearchRespondsWith(i, response) =>
          LET entries == searchResults(response)
              first == { k \in 1..Len(entries) :
                           \A j \in 1..(k - 1) : entries[j].url # entries[k].url }
              nth(n) == CHOOSE k \in first : Cardinality({ j \in first : j < k }) = n - 1
          IN currentSearchResults' = [ n \in 1..Cardinality(first) |-> entries[nth(n)] ] ]_vars

\* C17 (as stated): the facts returned are the first min(n, 5) of the n bullet
\* lines of the FACTS: section, in order, each without its dash and the
\* white space around it, none empty, and none is the IMAGE_PROMPT: text.
FactsAreFirstFiveBullets ==
  [][ \A i \in 1..Len(cycles) : \A response \in ResearchResponses :
        ( /\ ResearchRespondsWith(i, response)
          /\ \E k \in 1..Len(ResponseText(response)) : ResponseText(response)[k] \in FactsMarkers )
        => LET text == ResponseText(response)
               f == CHOOSE k \in 1..Len(text) :
                      /\ text[k] \in FactsMarkers
                      /\ \A j \in 1..(k - 1) : text[j] \notin FactsMarkers
               after == { k \in (f + 1)..Len(text) : text[k] \in PromptMarkers }
               p == IF after = {} THEN Len(text) + 1
                    ELSE CHOOSE k \in after : \A j \in after : k <= j
               lines == Split(SubSeq(text, f + 1, p - 1))
               bullets == { k \in 1..Len(lines) :
                              Trim(lines[k]) # <<>> /\ Head(Trim(lines[k])) = "-" }
               nth(n) == CHOOSE k \in bullets : Cardinality({ j \in bullets : j < k }) = n - 1
               prompt == Trim(SubSeq(text, p + 1, Len(text)))
           IN /\ Len(loadingFacts') = Min(Cardinality(bullets), 5)
              /\ \A n \in 1..Len(loadingFacts') :
                   /\ loadingFacts'[n] = Trim(Tail(Trim(lines[nth(n)])))
                   /\ loadingFacts'[n] # <<>>
                   /\ prompt # <<>> => ~Includes(loadingFacts'[n], prompt) ]_vars

\* C18: when the response text has no IMAGE_PROMPT: marker the prompt sent to
\* the image model contains the topic given to researchTopicForPrompt, the
\* level instruction and the style instruction; when it has one, the prompt
\* is the text after the first marker up to the end of the response, trimmed.
PromptFromMarkerOrSynthesized ==
  [][ \A i \in 1..Len(cycles) : \A response \in ResearchResponses :
        ResearchRespondsWith(i, response) =>
          LET text == ResponseText(response)
              marked == { k \in 1..Len(text) : text[k] \in PromptMarkers }
              prompt == cycles'[i].request.text
          IN /\ cycles'[i].request.api = "image"
             /\ IF marked = {}
                THEN /\ cycles[i].request.text # <<>>
                     /\ Includes(prompt, cycles[i].request.text)
                     /\ Includes(prompt, << getLevelInstruction(cycles[i].request.level) >>)
                     /\ Includes(prompt, << getStyleInstruction(cycles[i].request.style) >>)
                ELSE LET p == CHOOSE k \in marked : \A j \in marked : k <= j
                     IN prompt = Trim(SubSeq(text, p + 1, Len(text))) ]_vars

\* a response without the marker was answered for an Elementary, Sketch request
PromptSynthesized ==
  /\ Len(cycles) = 1
  /\ cycles[1].request.api = "image"
  /\ cycles[1].request.text =
       << "Create a detailed infographic about ", "Photosynthesis", ". ",
          getLevelInstruction("Elementary"), " ", getStyleInstruction("Sketch") >>
  /\ loadingFacts = << << "a" >> >>

\* C19: when the image model or the edit model answers, the entry produced
\* holds "data:image/png;base64," followed by the data of the first part, in
\* list order, whose inline data is non-empty; when no part has any (an empty
\* or missing list included) the call throws its error and nothing is produced.
FirstInlinePartReturned ==
  [][ \A i \in 1..Len(cycles) : \A parts \in ImageResponses :
        (ImageRespondsWith(i, parts) \/ EditRespondsWith(i, parts)) =>
          LET carrying == { k \in 1..Len(parts) :
                              /\ parts[k].inlineData # <<>>
                              /\ parts[k].inlineData[1].data # "" }
          IN IF carrying = {}
             THEN /\ produced' = produced
                  /\ imageHistory' = imageHistory
                  /\ console' = << Err(<< IF cycles[i].request.api = "image"
                                          THEN "Failed to generate image"
                                          ELSE "Failed to edit image" >>) >>
             ELSE LET k == CHOOSE k \in carrying : \A j \in carrying : k <= j
                  IN /\ produced' = Append(produced, << "data:image/png;base64,",
                                                        parts[k].inlineData[1].data >>)
                     /\ imageHistory'[1].data = produced'[Len(produced')]
                     /\ \A j \in 1..(k - 1) : parts[j].inlineData = <<>> ]_vars

\* an edit was answered with a text part followed by two images
EditSkippedTextPart ==
  /\ Len(imageHistory) = 2
  /\ imageHistory[2].data = << DataUriPrefix, "BBBB" >>
  /\ imageHistory[1].data = << DataUriPrefix, "AAAA" >>
  /\ sent.edit = 1

\* C20: a research request is sent only by a submit of the form that starts a
\* cycle and an edit request only by an edit trigger that starts one, one
\* each; an image request is sent only when a cycle's research call resolves,
\* once, and a cycle never goes back to an earlier request; the step that
\* ends a cycle, failed or not, sends nothing.
NoAutomaticRetry ==
  [][ /\ sent'.research # sent.research =>
           /\ sent'.research = sent.research + 1
           /\ sent'.image = sent.image /\ sent'.edit = sent.edit
           /\ handleGenerate
           /\ cycles = <<>> /\ Len(cycles') = 1
           /\ cycles'[1].request.api = "research"
      /\ sent'.edit # sent.edit =>
           /\ sent'.edit = sent.edit + 1
           /\ sent'.image = sent.image /\ sent'.research = sent.research
           /\ EditTriggered
           /\ cycles = <<>> /\ Len(cycles') = 1
           /\ cycles'[1].request.api = "edit"
      /\ sent'.image # sent.image =>
           /\ sent'.image = sent.image + 1
           /\ Len(cycles') = Len(cycles)
           /\ \E i \in 1..Len(cycles) :
                /\ cycles[i].request.api = "research"
                /\ cycles'[i].request.api = "image"
      /\ Len(cycles') = Len(cycles) =>
           \A i \in 1..Len(cycles) :
             cycles[i].request.api # "research" => cycles'[i].request = cycles[i].request
      /\ Len(cycles') < Len(cycles) => sent' = sent
      /\ cycles = <<>> /\ cycles' = <<>> => sent' = sent ]_vars

\* a generate cycle has failed after its research and its image request, and
\* the controller is idle
FailedAndIdle ==
  /\ cycles = <<>>
  /\ ~isLoading
  /\ error = ServiceUnavailable
  /\ imageHistory = <<>>
  /\ sent.research = 1
  /\ sent.image = 1
  /\ sent.edit = 0

\* C21: an edit trigger sends one edit request and no research or image
\* request, for the image of the entry active at that moment; when the edit
\* model answers with an image, the entry prepended has the level, style,
\* language, aspectRatio and resolution of that entry, the edit instruction as
\* prompt and the edited image as data, and every entry already in the
\* history stays as it is, behind the new one.
EditReusesActiveEntry ==
  [][ /\ \A editPrompt \in EditPrompts :
           handleEdit(editPrompt) =>
             LET edited == imageHistory[CHOOSE k \in 1..Len(imageHistory) :
                                          /\ imageHistory[k].id = activeImageId
                                          /\ \A j \in 1..(k - 1) :
                                               imageHistory[j].id # activeImageId]
                 c == cycles'[Len(cycles')]
             IN /\ sent'.research = sent.research /\ sent'.image = sent.image
                /\ sent'.edit = sent.edit + 1
                /\ c.request.api = "edit"
                /\ c.request.text = editPrompt
                /\ << DataUriPrefix >> \o c.request.image = edited.data
                /\ c.prompt = editPrompt
                /\ << c.level, c.style, c.language, c.aspectRatio, c.resolution >> =
                     << edited.level, edited.style, edited.language, edited.aspectRatio,
                        edited.resolution >>
      /\ \A i \in 1..Len(cycles) : \A parts \in ImageResponses :
           EditRespondsWith(i, parts) =>
             /\ sent' = sent
             /\ Len(imageHistory') > Len(imageHistory) =>
                  /\ SubSeq(imageHistory', 2, Len(imageHistory')) = imageHistory
                  /\ imageHistory'[1].prompt = cycles[i].prompt
                  /\ imageHistory'[1].data = editInfographicImage(parts).data
                  /\ << imageHistory'[1].level, imageHistory'[1].style,
                        imageHistory'[1].language, imageHistory'[1].aspectRatio,
                        imageHistory'[1].resolution >> =
                       << cycles[i].level, cycles[i].style, cycles[i].language,
                          cycles[i].aspectRatio, cycles[i].resolution >>
      /\ Len(cycles') = Len(cycles) =>
           \A i \in 1..Len(cycles) :
             cycles[i].kind = "edit" => cycles'[i] = cycles[i] ]_vars

\* the second stored entry was edited while the form's level was Elementary
\* and another entry had been selected before the edit model answered
EditedStoredEntry ==
  /\ Len(imageHistory) = 3
  /\ SubSeq(imageHistory, 2, 3) = StoredHistory
  /\ imageHistory[1].prompt = << "make it blue" >>
  /\ imageHistory[1].data = << DataUriPrefix, "AAAA" >>
  /\ imageHistory[1].style = "Sketch"
  /\ imageHistory[1].resolution = "2K"
  /\ visualStyle = "Default"
  /\ resolution = "1K"
  /\ sent = [ research |-> 0, image |-> 0, edit |-> 1, upload |-> 0 ]

\* C22: the collection stored under the storage key is always the one in
\* memory, after a successful cycle, a clear and a reload alike, and a reload
\* restores the history that was in memory before it, with its first entry
\* active when it is not empty and no entry active when it is.
PersistedIsInMemory ==
  /\ [] /\ localStorage.infogenius_history_v1 # <<>>
        /\ Parse(localStorage.infogenius_history_v1[1]) = imageHistory
  /\ [][ reload =>
           /\ imageHistory' = imageHistory
           /\ activeImageId' = (IF imageHistory = <<>> THEN Null ELSE imageHistory[1].id)
           /\ localStorage' = localStorage ]_vars

\* the page was reloaded after a cycle had added an entry in front of the
\* saved ones: the form is empty again, nothing is pending, the new entry is
\* active
ReloadedWithNewEntry ==
  /\ topic = <<>>
  /\ Len(imageHistory) = 3
  /\ SubSeq(imageHistory, 2, 3) = StoredHistory
  /\ activeImageId = imageHistory[1].id
  /\ cycles = <<>>
  /\ timers = <<>>
  /\ ~isSyncing
  /\ sent.research = 1

\* C23: every step leaves imageHistory as it is, or puts exactly one new entry
\* in front of the unchanged old entries, or empties it; it is emptied only by
\* handleClearHistory, and a handleClearHistory step that does not empty it
\* (the confirmation was declined) changes nothing at all.
HistoryOnlyGrowsOrClears ==
  [][ /\ \/ imageHistory' = imageHistory
         \/ /\ Len(imageHistory') = Len(imageHistory) + 1
            /\ SubSeq(imageHistory', 2, Len(imageHistory')) = imageHistory
         \/ imageHistory' = <<>>
      /\ (imageHistory' = <<>> /\ imageHistory # <<>>) => handleClearHistory
      /\ (handleClearHistory /\ imageHistory' # <<>>) => UNCHANGED vars ]_vars

\* two cycles succeeded and the archive of two entries was then cleared
ClearedAfterTwoEntries ==
  /\ imageHistory = <<>>
  /\ activeImageId = Null
  /\ cycles = <<>>
  /\ console = <<>>
  /\ CyclesStarted = 2
  /\ localStorage.infogenius_history_v1 = << Stringify(<<>>) >>

\* C24 (as stated): no entry of imageHistory has the id activeImageId when it
\* is null, and at most one has it otherwise.
AtMostOneActive ==
  Cardinality({ k \in 1..Len(imageHistory) : imageHistory[k].id = activeImageId })
    <= (IF activeImageId = Null THEN 0 ELSE 1)

\* C25: when every awaited call settles, a cycle that has started is followed
\* by a state with isLoading false and loadingStep 0; isLoading turns false
\* only in the step in which a cycle's call settles and the cycle ends (there
\* is no timeout and no cancellation), and while isLoading is true a
\* handleGenerate trigger changes neither the controller nor the cycle and
\* sends nothing.
CycleReturnsToIdle ==
  /\ isLoading ~> (~isLoading /\ loadingStep = 0 /\ cycles = <<>>)
  /\ [][ /\ (isLoading /\ ~isLoading') =>
              /\ Len(cycles') < Len(cycles)
              /\ \/ ResearchRejects \/ ImageResponds \/ ImageRejects
                 \/ EditResponds \/ EditRejects
         /\ (isLoading /\ handleGenerate) =>
              UNCHANGED << controller, cycles, sent >> ]_vars

\* a trigger was ignored while a cycle was in flight, and the cycle has ended
\* with an error
IdleAfterIgnoredTrigger ==
  /\ ignored > 0
  /\ ~isLoading
  /\ loadingStep = 0
  /\ cycles = <<>>
  /\ error = ServiceUnavailable
  /\ CyclesStarted = 1

\* C26: in every state, after the load at startup and a reload, a cycle,
\* an archive selection, handleNewSession and handleClearHistory (also while a
\* cycle is in flight), activeImageId is null or the id of an entry of
\* imageHistory.
ActiveIsInHistory ==
  activeImageId = Null \/ \E k \in 1..Len(imageHistory) : imageHistory[k].id = activeImageId

\* a cycle is in flight after an earlier one succeeded; the archive has been
\* cleared and nothing is active
ClearedWithCycleInFlight ==
  /\ Len(cycles) = 1
  /\ isLoading
  /\ imageHistory = <<>>
  /\ activeImageId = Null
  /\ CyclesStarted = 2
  /\ sent.image >= 1

\* C27 (as stated): loadingStep is 1 or 2 exactly when isLoading is true and 0
\* exactly when it is false.
StepAgreesWithLoading ==
  /\ (loadingStep \in { 1, 2 }) = isLoading
  /\ (loadingStep = 0) = ~isLoading

\* C28 (as stated): while an upload started by a cycle has not settled,
\* isSyncing is true.
SyncingCoversUploads == uploads # <<>> => isSyncing

\* C29 (as stated): handleNewSession leaves imageHistory and the persisted
\* history unchanged, and what it cleared stays cleared until the user
\* triggers a cycle or selects an archived image, also when it ran while a
\* cycle was in flight. isLoading with loadingStep 0 is the state it leaves
\* when it runs during a cycle; until that cycle ends the form takes no input
\* and no cycle can be triggered, so from such a state, when no trigger has
\* been attempted either, only an archive selection may set activeImageId,
\* and topic, contextSources, currentSearchResults and error keep their
\* cleared values.
NewSessionStaysCleared ==
  [][ /\ handleNewSession =>
           /\ UNCHANGED << imageHistory, localStorage >>
           /\ activeImageId' = Null /\ topic' = <<>> /\ contextSources' = <<>>
           /\ currentSearchResults' = <<>> /\ error' = Null
      /\ (isLoading /\ loadingStep = 0 /\ ignored = 0 /\ ignored' = 0 /\ ~selectArchive) =>
           /\ activeImageId = Null => activeImageId' = Null
           /\ currentSearchResults = <<>> => currentSearchResults' = <<>>
           /\ error = Null => error' = Null
           /\ topic = <<>> => topic' = <<>>
           /\ contextSources = <<>> => contextSources' = <<>> ]_vars

\* C30 (as stated): the prompt of an image request is never empty.
PromptNeverEmpty ==
  \A i \in 1..Len(cycles) :
    cycles[i].request.api = "image" => cycles[i].request.text # <<>>

====
